---- MODULE Spec2Model ----
(***************************************************************************)
(* A model of freshservice_alerts_v4.py: the paginated fetcher              *)
(* (get_paged_results), the field resolver (extract_fields_smart), the      *)
(* date parser (parse_date), the severity bands (get_style), the payload    *)
(* builder (send_to_make) and the main flow (main).                         *)
(*                                                                          *)
(* Python strings are sequences of one-character strings, so that lower(),  *)
(* substring tests, slicing, len() and strip() are computed, not assumed.   *)
(* Python's None is the value None below, which is no such sequence.        *)
(***************************************************************************)
EXTENDS Integers, Sequences, FiniteSets, TLC

VARIABLES
    \* ---- get_paged_results ----
    server,      \* the page bodies the endpoint serves: server[p] is page p
    page,        \* the page index (line 64)
    results,     \* the accumulated records (line 64)
    fpc,         \* "idle" | "loop" (inside while True) | "returned" (line 87)
    requests,    \* the page index of every requests.get issued, in order
    sleeps,      \* the duration in milliseconds of every time.sleep, in order
    resp,        \* the response to the last request
    n429,        \* how many requests were answered 429
    \* ---- extract_fields_smart ----
    type_fields, \* the custom-field mapping: a sequence of <<key, value>>
    extracted,   \* None before the call, then <<serial, expiry>>
    \* ---- main / send_to_make ----
    pc,          \* "idle" | "contracts" | "assets" | "send" | "done"
    today,       \* the day number of datetime.now() at midnight
    assets_raw,
    contracts_raw,
    ci,          \* the index of the next contract of the contract loop
    ai,          \* the index of the next asset of the asset loop
    contract_alerts,
    asset_contract_map,
    asset_alerts,
    detail_calls,\* the display_id of every get_asset_details call, in order
    assoc_log,   \* the associated-assets list fetched for each contract
    last_det,    \* the last asset step: its kind, the asset and its detail
    MAKE_URL,    \* whether the webhook URL is configured (line 33)
    payload,     \* NoPayload, or the payload send_to_make built
    sent         \* "none", or what send_to_make returned: "true", "false"

fetchVars  == <<server, page, results, fpc, requests, sleeps, resp, n429>>
fieldVars  == <<type_fields, extracted>>
mainVars   == <<pc, today, assets_raw, contracts_raw, ci, ai, contract_alerts,
                asset_contract_map, asset_alerts, detail_calls, assoc_log,
                last_det, MAKE_URL, payload, sent>>
vars       == <<fetchVars, fieldVars, mainVars>>

None == <<"<None>">>

\* {}: every .get() on it is None, and type_fields defaults to {}
EmptyRecord == [id |-> None, name |-> None, asset_tag |-> None, type_fields |-> <<>>]

\* No payload was built.
NoPayload == [asset_alerts |-> <<>>, contract_alerts |-> <<>>, summary |-> <<>>]

\* ------------------------------------------------------------------ bounds
MaxPages   == 3   \* pages the endpoint holds before it runs out
MaxRetries == 2   \* 429 responses within one get_paged_results call

\* ------------------------------------------------------- program constants
PER_PAGE           == 100    \* params["per_page"] and the last-page test
DEFAULT_RETRY      == 60     \* headers.get("Retry-After", 60)
PAGE_DELAY_MS      == 100    \* time.sleep(0.1)

\* --------------------------------------------------------- string helpers
Last(s) == s[Len(s)]

DigitVal(c) ==
    CASE c = "0" -> 0 [] c = "1" -> 1 [] c = "2" -> 2 [] c = "3" -> 3
      [] c = "4" -> 4 [] c = "5" -> 5 [] c = "6" -> 6 [] c = "7" -> 7
      [] c = "8" -> 8 [] c = "9" -> 9

IsDigit(c) == c \in {"0", "1", "2", "3", "4", "5", "6", "7", "8", "9"}

\* int(s) of a string of decimal digits
RECURSIVE int(_)
int(s) == IF Len(s) = 0 THEN 0
          ELSE 10 * int(SubSeq(s, 1, Len(s) - 1)) + DigitVal(Last(s))

\* ======================================================================
\* get_paged_results (lines 62-87)
\* ======================================================================

\* The records of page p of the collection: n distinct records.
Records(p, n) == [i \in 1..n |-> 1000 * p + i]

\* A JSON body is an ordered mapping: a sequence of entries, each a key, whether
\* its value is a list, and the value.
ListEntry(k, items) == [k |-> k, list |-> TRUE, v |-> items]
MetaEntry(k)        == [k |-> k, list |-> FALSE, v |-> <<>>]

\* The page shapes an endpoint serves: a full page, a page longer than asked
\* for, a short page, an empty list, a body with no list-valued key, and a
\* short page whose list comes after a non-list key.
PageShapes == {"full", "over", "short37", "empty", "nolist", "metashort"}

Body(shape, p) ==
    CASE shape = "full"     -> << ListEntry("assets", Records(p, PER_PAGE)) >>
      [] shape = "over"     -> << ListEntry("assets", Records(p, PER_PAGE + 1)) >>
      [] shape = "short37"  -> << ListEntry("assets", Records(p, 37)) >>
      [] shape = "empty"    -> << ListEntry("assets", <<>>) >>
      [] shape = "nolist"   -> << MetaEntry("message") >>
      [] shape = "metashort" -> << MetaEntry("meta"),
                                   ListEntry("assets", Records(p, 1)) >>

\* What the endpoint answers for page p: beyond its last page, an empty list.
ServerBody(p) == IF p <= Len(server) THEN server[p]
                 ELSE << ListEntry("assets", <<>>) >>

\* The Retry-After header of a 429: absent, or a delay in seconds.
RetryAfterHeaders == {None, <<"5">>, <<"1", "2", "0">>}

\* Failures other than a 429 (lines 69, 75, 76, 77 raise; line 84 catches).
FailureKinds == {"network", "timeout", "http500", "http404", "badjson", "notobject"}

\* line 71: retry = int(resp.headers.get("Retry-After", 60))
RetryAfter(hdr) == IF hdr = None THEN DEFAULT_RETRY ELSE int(hdr)

\* A fetcher that moves on after a 429 instead of retrying the page.
PageAfter429_Advances(p) == p + 1

\* line 74: continue, with page untouched
PageAfter429(p) == p

\* line 77: key = next((k for k in data.keys() if isinstance(data[k], list)), None)
ListKeyIndex(data) ==
    IF \E i \in 1..Len(data) : data[i].list
    THEN CHOOSE i \in 1..Len(data) :
            data[i].list /\ \A j \in 1..(i - 1) : ~data[j].list
    ELSE 0

\* A last-page test that also stops on a page of exactly the page size.
IsLastPage_Inclusive(batch) == Len(batch) <= PER_PAGE

\* line 81: if len(batch) < 100: break
IsLastPage(batch) == Len(batch) < PER_PAGE

\* A failure handler that gives up the pages already accepted.
ResultsOnFailure_Drops(acc) == <<>>

\* lines 84-86: any failure ends the loop; results is what line 87 returns
ResultsOnFailure(acc) == acc

\* lines 63-65
CallGetPagedResults ==
    /\ fpc = "idle"
    /\ fpc' = "loop"
    /\ page' = 1
    /\ results' = <<>>
    /\ UNCHANGED <<server, requests, sleeps, resp, n429>>
    /\ UNCHANGED <<fieldVars, mainVars>>

\* lines 69-74: the request is answered 429
Request429 ==
    /\ fpc = "loop"
    /\ n429 < MaxRetries
    /\ \E hdr \in RetryAfterHeaders :
         /\ resp' = [status |-> "429", retry_after |-> hdr]
         /\ sleeps' = Append(sleeps, 1000 * RetryAfter(hdr))
    /\ requests' = Append(requests, page)
    /\ page' = PageAfter429(page)
    /\ n429' = n429 + 1
    /\ UNCHANGED <<server, results, fpc>>
    /\ UNCHANGED <<fieldVars, mainVars>>

\* lines 69, 75-77 raising, lines 84-86
RequestFails ==
    /\ fpc = "loop"
    /\ \E kind \in FailureKinds :
         resp' = [status |-> kind, retry_after |-> None]
    /\ requests' = Append(requests, page)
    /\ results' = ResultsOnFailure(results)
    /\ fpc' = "returned"
    /\ UNCHANGED <<server, page, sleeps, n429>>
    /\ UNCHANGED <<fieldVars, mainVars>>

\* lines 69, 75-83: a 2xx response with a JSON object
RequestOK ==
    /\ fpc = "loop"
    /\ requests' = Append(requests, page)
    /\ resp' = [status |-> "200", retry_after |-> None]
    /\ LET data == ServerBody(page)
           key  == ListKeyIndex(data)
       IN IF key = 0 \/ Len(data[key].v) = 0
          THEN /\ fpc' = "returned"
               /\ UNCHANGED <<page, results, sleeps>>
          ELSE LET batch == data[key].v
               IN /\ results' = results \o batch
                  /\ IF IsLastPage(batch)
                     THEN /\ fpc' = "returned"
                          /\ UNCHANGED <<page, sleeps>>
                     ELSE /\ page' = page + 1
                          /\ sleeps' = Append(sleeps, PAGE_DELAY_MS)
                          /\ UNCHANGED fpc
    /\ UNCHANGED <<server, n429>>
    /\ UNCHANGED <<fieldVars, mainVars>>

\* The endpoint: up to MaxPages pages, each of one of the shapes.
RECURSIVE ShapeSeqs(_)
ShapeSeqs(n) ==
    IF n = 0 THEN {<<>>}
    ELSE LET shorter == ShapeSeqs(n - 1)
         IN shorter \cup {Append(s, sh) : s \in {t \in shorter : Len(t) = n - 1},
                                         sh \in PageShapes}

Servers == {[p \in 1..Len(s) |-> Body(s[p], p)] : s \in ShapeSeqs(MaxPages)}

FetchIdle ==
    /\ server = <<>>
    /\ page = 0
    /\ results = <<>>
    /\ fpc = "off"
    /\ requests = <<>>
    /\ sleeps = <<>>
    /\ resp = [status |-> "none", retry_after |-> None]
    /\ n429 = 0

FieldIdle ==
    /\ type_fields = <<>>
    /\ extracted = None

MainIdle ==
    /\ pc = "off"
    /\ today = 0
    /\ assets_raw = <<>>
    /\ contracts_raw = <<>>
    /\ ci = 0
    /\ ai = 0
    /\ contract_alerts = <<>>
    /\ asset_contract_map = <<>>
    /\ asset_alerts = <<>>
    /\ detail_calls = <<>>
    /\ assoc_log = <<>>
    /\ last_det = [kind |-> "none", asset |-> None, det |-> EmptyRecord]
    /\ MAKE_URL = FALSE
    /\ payload = NoPayload
    /\ sent = "none"

FetchInit ==
    /\ server \in Servers
    /\ page = 0
    /\ results = <<>>
    /\ fpc = "idle"
    /\ requests = <<>>
    /\ sleeps = <<>>
    /\ resp = [status |-> "none", retry_after |-> None]
    /\ n429 = 0

FetchNext ==
    \/ CallGetPagedResults
    \/ Request429
    \/ RequestFails
    \/ RequestOK

InitFetch == FetchInit /\ FieldIdle /\ MainIdle

SpecFetch == InitFetch /\ [][FetchNext]_vars

\* ------------------------------------------------ claims on get_paged_results

\* The list a page body holds: the value of its first list-valued key, or
\* nothing when it has none.
PageItems(p) ==
    LET lists == SelectSeq(ServerBody(p), LAMBDA e : e.list)
    IN IF Len(lists) = 0 THEN <<>> ELSE lists[1].v

\* The records of pages 1..n, in page order.
RECURSIVE ConcatPages(_)
ConcatPages(n) == IF n = 0 THEN <<>> ELSE ConcatPages(n - 1) \o PageItems(n)

\* The first page holding fewer records than the page size.
StopPage == CHOOSE p \in 1..(Len(server) + 1) :
               /\ Len(PageItems(p)) < 100
               /\ \A q \in 1..(p - 1) : Len(PageItems(q)) >= 100

BackoffMs(hdr) ==
    CASE hdr = None -> 60000
      [] hdr = <<"5">> -> 5000
      [] hdr = <<"1", "2", "0">> -> 120000

Requested == Len(requests') = Len(requests) + 1

\* C1: a request answered 429 is followed by exactly one sleep of the
\* Retry-After duration (60 s when the header is absent); it leaves the page
\* index and the results as they were and stays in the loop, and the request
\* after a 429 is for the same page again.
C1_RateLimitRetriesSamePage ==
    [][ /\ (Requested /\ resp'.status = "429") =>
             /\ Last(requests') = page
             /\ page' = page
             /\ results' = results
             /\ fpc' = "loop"
             /\ sleeps' = Append(sleeps, BackoffMs(resp'.retry_after))
        /\ (Requested /\ resp.status = "429") =>
             Last(requests') = Last(requests) ]_vars

\* One 429 then a 200 on page 1: two requests for page 1, one backoff sleep,
\* and the page accepted.
C1_Witness ==
    /\ requests = <<1, 1>>
    /\ n429 = 1
    /\ resp.status = "200"
    /\ sleeps = <<5000>>
    /\ Len(results) = 37

\* C2: a request that fails with anything other than a 429 ends the loop at
\* that page: the function returns the records of the pages accepted before
\* it, in order, and requests nothing more.
C2_FailureReturnsPartial ==
    [][ /\ (Requested /\ resp'.status \in FailureKinds) =>
             /\ fpc' = "returned"
             /\ Last(requests') = page
             /\ results' = ConcatPages(page - 1)
        /\ (fpc = "returned") =>
             (fpc' = "returned" /\ requests' = requests /\ results' = results) ]_vars

\* Two pages accepted, then a failure on page 3.
C2_Witness ==
    /\ fpc = "returned"
    /\ resp.status \in FailureKinds
    /\ Last(requests) = 3
    /\ Len(results) >= 200

\* C3: with no 429 and no failure, the pages requested are 1, 2, 3, ... one
\* request each, up to the first page holding fewer than 100 records, and the
\* result is the records of those pages in page order (an empty page or a body
\* with no list adds nothing).
C3_PaginationConcatenates ==
    (n429 = 0 /\ resp.status \notin FailureKinds) =>
        /\ requests = [i \in 1..Len(requests) |-> i]
        /\ Len(requests) <= StopPage
        /\ fpc = "returned" =>
              /\ Len(requests) = StopPage
              /\ results = ConcatPages(StopPage)

\* Pages of 100, 100 and 37 records: 237 records from exactly 3 requests.
C3_Witness ==
    /\ fpc = "returned"
    /\ n429 = 0
    /\ resp.status = "200"
    /\ Len(server) = 3
    /\ Len(PageItems(1)) = 100 /\ Len(PageItems(2)) = 100 /\ Len(PageItems(3)) = 37
    /\ Len(results) = 237
    /\ requests = <<1, 2, 3>>

\* ======================================================================
\* extract_fields_smart (lines 95-112)
\* ======================================================================

MaxFields == 2   \* entries of a custom-field mapping

UpperCase == <<"A", "B", "C", "D", "E", "F", "G", "H", "I", "J", "K", "L", "M", "N", "O", "P", "Q", "R", "S", "T", "U", "V", "W", "X", "Y", "Z">>
LowerCase == <<"a", "b", "c", "d", "e", "f", "g", "h", "i", "j", "k", "l", "m", "n", "o", "p", "q", "r", "s", "t", "u", "v", "w", "x", "y", "z">>

\* the lower-case letter of every upper-case letter
ToLower == [c \in {UpperCase[i] : i \in 1..26} |->
              LowerCase[CHOOSE i \in 1..26 : UpperCase[i] = c]]

\* str.lower(), one character
LowerChar(c) == IF c \in DOMAIN ToLower THEN ToLower[c] ELSE c

\* str.lower()
lower(s) == [i \in 1..Len(s) |-> LowerChar(s[i])]

\* str(v)
str(v) == IF v = None THEN <<"N", "o", "n", "e">> ELSE v

\* kw in k
Contains(kw, k) ==
    \E i \in 0..(Len(k) - Len(kw)) : \A j \in 1..Len(kw) : k[i + j] = kw[j]

\* line 99
SERIAL_KEYWORDS == << <<"s", "e", "r", "i", "a", "l">>, <<"s", "e", "r", "v", "i", "c", "e", "_", "t", "a", "g">>, <<"s", "r", "i", "e">>, <<"n", "m", "e", "r", "o">>,
                      <<"i", "m", "e", "i">>, <<"a", "s", "s", "e", "t", "_", "t", "a", "g">> >>

\* line 105
EXPIRY_KEYWORDS == << <<"w", "a", "r", "r", "a", "n", "t", "y", "_", "e", "x", "p", "i", "r", "y">>, <<"e", "x", "p", "i", "r", "y", "_", "d", "a", "t", "e">>, <<"f", "i", "n", "a", "l", "_", "d", "e", "_", "s", "u", "p", "o", "r", "t", "e">>,
                      <<"s", "u", "p", "p", "o", "r", "t", "_", "e", "n", "d">>, <<"v", "a", "l", "i", "d", "a", "d", "e">>, <<"v", "e", "n", "c", "i", "m", "e", "n", "t", "o">> >>

\* line 97: if v and str(v).lower() not in ['none', 'n/a', '']
KeepsValue(v) ==
    /\ v # None
    /\ v # <<>>
    /\ lower(str(v)) \notin { <<"n", "o", "n", "e">>, <<"n", "/", "a">>, <<>> }

\* d[k] = v on an insertion-ordered dict: a key already there keeps its place
DictSet(d, k, v) ==
    IF \E i \in 1..Len(d) : d[i][1] = k
    THEN [i \in 1..Len(d) |-> IF d[i][1] = k THEN <<k, v>> ELSE d[i]]
    ELSE Append(d, <<k, v>>)

\* line 97: normalized = {k.lower(): v for k, v in type_fields.items() if ...}
RECURSIVE normalized(_)
normalized(tf) ==
    IF Len(tf) = 0 THEN <<>>
    ELSE LET e    == Last(tf)
             rest == normalized(SubSeq(tf, 1, Len(tf) - 1))
         IN IF KeepsValue(e[2]) THEN DictSet(rest, lower(e[1]), e[2]) ELSE rest

\* lines 100, 106: found = next((k for k in normalized if kw in k), None),
\* as the index of the key (0 for None)
Found(norm, kw) ==
    LET hits == {i \in 1..Len(norm) : Contains(kw, norm[i][1])}
    IN IF hits = {} THEN 0 ELSE CHOOSE i \in hits : \A j \in hits : i <= j

\* lines 99-103, from keyword i on
RECURSIVE SerialLoop(_, _)
SerialLoop(norm, i) ==
    IF i > Len(SERIAL_KEYWORDS) THEN None
    ELSE LET found == Found(norm, SERIAL_KEYWORDS[i])
         IN IF found # 0 THEN norm[found][2] ELSE SerialLoop(norm, i + 1)

\* An acceptance test that lets a value of exactly 8 characters through.
ExpiryAccepted_AtLeast(val) == Len(val) >= 8

\* line 109: if len(val) > 8
ExpiryAccepted(val) == Len(val) > 8

\* lines 105-111, from keyword i on
RECURSIVE ExpiryLoop(_, _)
ExpiryLoop(norm, i) ==
    IF i > Len(EXPIRY_KEYWORDS) THEN None
    ELSE LET found == Found(norm, EXPIRY_KEYWORDS[i])
         IN IF found # 0 /\ ExpiryAccepted(str(norm[found][2]))
            THEN str(norm[found][2])
            ELSE ExpiryLoop(norm, i + 1)

\* lines 95-112
extract_fields_smart(tf) ==
    LET norm == normalized(tf)
    IN << SerialLoop(norm, 1), ExpiryLoop(norm, 1) >>

\* The keys and values custom fields are drawn from.
FieldKeys == { <<"S", "e", "r", "i", "a", "l", "_", "N", "u", "m", "b", "e", "r">>, <<"s", "e", "r", "i", "a", "l", "_", "n", "u", "m", "b", "e", "r">>, <<"I", "M", "E", "I">>,
               <<"W", "a", "r", "r", "a", "n", "t", "y", "_", "E", "x", "p", "i", "r", "y", "_", "D", "a", "t", "e">>, <<"V", "a", "l", "i", "d", "a", "d", "e">>, <<"N", "o", "t", "e", "s">> }

FieldValues == { None, <<>>, <<"N", "/", "A">>, <<"A", "B", "C", "1", "2", "3">>, <<"2", "0", "2", "5", "-", "1", "-", "5">>, <<"2", "0", "2", "5", "-", "0", "1", "-", "1", "5">> }

\* The mappings of up to n entries with distinct keys, in every order.
RECURSIVE Mappings(_)
Mappings(n) ==
    IF n = 0 THEN {<<>>}
    ELSE LET shorter == Mappings(n - 1)
         IN shorter \cup
            UNION { { Append(m, <<k, v>>) :
                        k \in FieldKeys \ {m[i][1] : i \in 1..Len(m)},
                        v \in FieldValues } :
                    m \in {t \in shorter : Len(t) = n - 1} }

FieldInit ==
    /\ type_fields \in Mappings(MaxFields)
    /\ extracted = None

CallExtractFieldsSmart ==
    /\ extracted = None
    /\ extracted' = extract_fields_smart(type_fields)
    /\ UNCHANGED type_fields
    /\ UNCHANGED <<fetchVars, mainVars>>

InitFields == FetchIdle /\ FieldInit /\ MainIdle

FieldsNext == CallExtractFieldsSmart

SpecFields == InitFields /\ [][FieldsNext]_vars

\* ---------------------------------------------- claims on extract_fields_smart

\* A value the resolver ignores: empty, or "none" or "n/a" in any case.
Ignored(v) == v = None \/ Len(v) = 0 \/ lower(v) \in { <<"n", "o", "n", "e">>, <<"n", "/", "a">> }

\* The entries that remain, their keys lower-cased, in mapping order.
KeptFields(tf) ==
    LET k == SelectSeq(tf, LAMBDA e : ~Ignored(e[2]))
    IN [j \in 1..Len(k) |-> << lower(k[j][1]), k[j][2] >>]

\* The value the lower-cased key of entry j maps to: that of the last
\* remaining entry with the same lower-cased key.
KeptValue(kf, j) ==
    LET js == {g \in 1..Len(kf) : kf[g][1] = kf[j][1]}
    IN kf[CHOOSE g \in js : \A h \in js : h <= g][2]

\* The first remaining key, in mapping order, that contains kw (0: none).
FirstKeyWith(kf, kw) ==
    LET js == {j \in 1..Len(kf) : Contains(kw, kf[j][1])}
    IN IF js = {} THEN 0 ELSE CHOOSE j \in js : \A g \in js : j <= g

\* The serial the claim describes.
SerialByRule(kf) ==
    LET cand == [i \in 1..Len(SERIAL_KEYWORDS) |-> FirstKeyWith(kf, SERIAL_KEYWORDS[i])]
        ks   == {i \in 1..Len(SERIAL_KEYWORDS) : cand[i] # 0}
    IN IF ks = {} THEN None
       ELSE KeptValue(kf, cand[CHOOSE i \in ks : \A g \in ks : i <= g])

\* The expiry the claim describes: per keyword the candidate is the first key
\* containing it, accepted when its value is longer than 8 characters; the
\* earliest keyword with an accepted candidate decides.
ExpiryByRule(kf) ==
    LET cand == [i \in 1..Len(EXPIRY_KEYWORDS) |-> FirstKeyWith(kf, EXPIRY_KEYWORDS[i])]
        ks   == {i \in 1..Len(EXPIRY_KEYWORDS) :
                   cand[i] # 0 /\ Len(KeptValue(kf, cand[i])) > 8}
    IN IF ks = {} THEN None
       ELSE KeptValue(kf, cand[CHOOSE i \in ks : \A g \in ks : i <= g])

AllDigits(s) == \A i \in 1..Len(s) : IsDigit(s[i])

IsLeap(y) == (y % 4 = 0 /\ y % 100 # 0) \/ y % 400 = 0

DaysInMonth(y, m) ==
    IF m = 2 THEN (IF IsLeap(y) THEN 29 ELSE 28)
    ELSE IF m \in {4, 6, 9, 11} THEN 30 ELSE 31

\* datetime.toordinal(), up to a constant: the number of the day y-m-d
Ordinal(y, m, d) ==
    LET yy  == IF m <= 2 THEN y - 1 ELSE y
        mm  == IF m <= 2 THEN m + 9 ELSE m - 3
        era == yy \div 400
        yoe == yy - era * 400
        doy == (153 * mm + 2) \div 5 + d - 1
        doe == yoe * 365 + yoe \div 4 - yoe \div 100 + doy
    IN era * 146097 + doe

\* parse_date's None: no date
NoDate == [y |-> 0, m |-> 0, d |-> 0]

\* datetime.strptime(t, "%Y-%m-%d"): four digits, a month of one or two
\* digits in 1..12, a day of one or two digits that the month has, and no
\* character more; NoDate where strptime raises.
strptime(t) ==
    LET dashes == {i \in 1..Len(t) : t[i] = "-"}
    IN IF Cardinality(dashes) # 2 THEN NoDate
       ELSE LET d1 == CHOOSE i \in dashes : \A j \in dashes : i <= j
                d2 == CHOOSE i \in dashes : \A j \in dashes : j <= i
                ys == SubSeq(t, 1, d1 - 1)
                ms == SubSeq(t, d1 + 1, d2 - 1)
                ds == SubSeq(t, d2 + 1, Len(t))
            IN IF /\ Len(ys) = 4 /\ AllDigits(ys) /\ int(ys) >= 1
                  /\ Len(ms) \in {1, 2} /\ AllDigits(ms) /\ int(ms) \in 1..12
                  /\ Len(ds) \in {1, 2} /\ AllDigits(ds) /\ int(ds) >= 1
                  /\ int(ds) <= DaysInMonth(int(ys), int(ms))
               THEN [y |-> int(ys), m |-> int(ms), d |-> int(ds)]
               ELSE NoDate

\* lines 114-117
parse_date(date_string) ==
    IF date_string = None \/ date_string = <<>> THEN NoDate
    ELSE LET s == str(date_string)
         IN strptime(SubSeq(s, 1, IF Len(s) < 10 THEN Len(s) ELSE 10))

\* the day number of a parsed date
DayOf(dt) == Ordinal(dt.y, dt.m, dt.d)

\* datetime.fromordinal(): the date of day number n (today + timedelta)
DateOf(n) ==
    LET era == n \div 146097
        doe == n - era * 146097
        yoe == (doe - doe \div 1460 + doe \div 36524 - doe \div 146096) \div 365
        doy == doe - (365 * yoe + yoe \div 4 - yoe \div 100)
        mp  == (5 * doy + 2) \div 153
        d   == doy - (153 * mp + 2) \div 5 + 1
        m   == IF mp < 10 THEN mp + 3 ELSE mp - 9
    IN [y |-> yoe + era * 400 + (IF m <= 2 THEN 1 ELSE 0), m |-> m, d |-> d]

Digit(n) == <<"0", "1", "2", "3", "4", "5", "6", "7", "8", "9">>[n + 1]

\* "%02d" and "%04d"
Pad2(n) == << Digit(n \div 10), Digit(n % 10) >>
Pad4(n) == Pad2(n \div 100) \o Pad2(n % 100)

\* dt.strftime("%d/%m/%Y") (lines 218, 247)
strftime(dt) == Pad2(dt.d) \o <<"/">> \o Pad2(dt.m) \o <<"/">> \o Pad4(dt.y)

\* ======================================================================
\* get_style (lines 122-127), clean (129-131), send_to_make (133-190)
\* ======================================================================

CRITICAL_DAYS == 90    \* line 125
WARNING_DAYS  == 120   \* line 126

\* A classifier whose critical band ends one day early.
get_style_StrictCritical(days) ==
    IF days < 0 THEN [level |-> "vencido", emoji |-> "#721c24",
                      bg |-> "#f8d7da", text |-> "#721c24"]
    ELSE IF days < CRITICAL_DAYS
         THEN [level |-> "critical", emoji |-> "#d32f2f",
               bg |-> "#ffebee", text |-> "#d32f2f"]
    ELSE IF days <= WARNING_DAYS
         THEN [level |-> "warning", emoji |-> "#856404",
               bg |-> "#fff3cd", text |-> "#856404"]
    ELSE [level |-> "info", emoji |-> "#0056b3",
          bg |-> "#ffffff", text |-> "#333333"]

\* lines 122-127; emoji is the colour of the bullet span
get_style(days) ==
    IF days < 0 THEN [level |-> "vencido", emoji |-> "#721c24",
                      bg |-> "#f8d7da", text |-> "#721c24"]
    ELSE IF days <= CRITICAL_DAYS
         THEN [level |-> "critical", emoji |-> "#d32f2f",
               bg |-> "#ffebee", text |-> "#d32f2f"]
    ELSE IF days <= WARNING_DAYS
         THEN [level |-> "warning", emoji |-> "#856404",
               bg |-> "#fff3cd", text |-> "#856404"]
    ELSE [level |-> "info", emoji |-> "#0056b3",
          bg |-> "#ffffff", text |-> "#333333"]

IsSpace(c) == c \in {" ", "\t", "\n", "\r"}

\* str.strip()
RECURSIVE strip(_)
strip(s) ==
    IF Len(s) = 0 THEN s
    ELSE IF IsSpace(s[1]) THEN strip(Tail(s))
    ELSE IF IsSpace(Last(s)) THEN strip(SubSeq(s, 1, Len(s) - 1))
    ELSE s

\* .replace('\n', ' ').replace('\r', '')
RECURSIVE ReplaceBreaks(_)
ReplaceBreaks(s) ==
    IF Len(s) = 0 THEN s
    ELSE IF s[1] = "\n" THEN <<" ">> \o ReplaceBreaks(Tail(s))
    ELSE IF s[1] = "\r" THEN ReplaceBreaks(Tail(s))
    ELSE <<s[1]>> \o ReplaceBreaks(Tail(s))

\* lines 129-131
clean(val) == IF val = None THEN <<"N", "/", "A">> ELSE ReplaceBreaks(strip(str(val)))

\* lines 138-150
CleanAsset(a) ==
    LET style == get_style(a.Dias)
    IN [asset_name     |-> clean(a.Asset),
        asset_tag      |-> clean(a.Tag),
        serial_number  |-> clean(a.Serial),
        contract_name  |-> IF a.Contrato # None /\ a.Contrato # <<>>
                           THEN clean(a.Contrato) ELSE <<"S", "e", "m", " ", "c", "o", "n", "t", "r", "a", "t", "o">>,
        expiry_date    |-> a.Vencimento,
        days_remaining |-> a.Dias,
        alert_level    |-> style.level,
        emoji          |-> style.emoji,
        bg_color       |-> style.bg,
        text_color     |-> style.text]

\* lines 154-165
CleanContract(c) ==
    LET style == get_style(c.days_remaining)
    IN [contract_name  |-> clean(c.contract_name),
        contract_id    |-> c.contract_id,
        vendor         |-> clean(c.vendor),
        end_date       |-> c.end_date,
        days_remaining |-> c.days_remaining,
        alert_level    |-> style.level,
        emoji          |-> style.emoji,
        bg_color       |-> style.bg,
        text_color     |-> style.text]

CountLevel(alerts, level) ==
    Cardinality({i \in 1..Len(alerts) : alerts[i].alert_level = level})

\* lines 136-180: the payload, without recipient_email and generated_at
BuildPayload(assets, contracts) ==
    LET clean_assets    == [i \in 1..Len(assets) |-> CleanAsset(assets[i])]
        clean_contracts == [i \in 1..Len(contracts) |-> CleanContract(contracts[i])]
        levels          == [i \in 1..(Len(assets) + Len(contracts)) |->
                              IF i <= Len(assets)
                              THEN [alert_level |-> clean_assets[i].alert_level]
                              ELSE [alert_level |->
                                      clean_contracts[i - Len(assets)].alert_level]]
    IN [asset_alerts    |-> clean_assets,
        contract_alerts |-> clean_contracts,
        summary |-> [total_count    |-> Len(levels),
                     vencido_count  |-> CountLevel(levels, "vencido"),
                     critical_count |-> CountLevel(levels, "critical"),
                     warning_count  |-> CountLevel(levels, "warning"),
                     info_count     |-> CountLevel(levels, "info")]]

\* ======================================================================
\* main (lines 196-255)
\* ======================================================================

MaxAssets    == 2   \* assets the asset list holds
MaxContracts == 2   \* contracts the contract list holds

DAYS_WARN  == 365   \* line 32, the default of DAYS_TO_WARN
MAX_ASSETS == 0     \* line 35, the default of MAX_ASSETS (0: no cap)

\* str(n) of a natural number
RECURSIVE Digits(_)
Digits(n) == IF n < 10 THEN <<Digit(n)>> ELSE Digits(n \div 10) \o <<Digit(n % 10)>>

Tag(n) == <<"A", "S", "S", "E", "T", "-">> \o Digits(n)

\* lines 38-56
EXCLUDED_ASSETS == { Tag(n) : n \in {
    96, 97, 952, 953, 954, 955, 956, 957, 958, 959, 960, 961,
    962, 963, 964, 965, 966, 967, 968, 969, 970, 971, 972, 973,
    974, 975, 976, 977, 978, 979, 981, 683, 682, 681, 680, 679,
    678, 677, 676, 675, 674, 673, 672, 671, 651, 650, 649, 648,
    647, 646, 645, 644, 643, 642, 641, 621, 620, 618, 615, 598,
    597, 596, 595, 594, 593, 592, 591, 590, 589, 588, 587, 586,
    585, 584, 583, 582, 581, 580, 579, 578, 577, 576, 575, 574 } }

\* A key a record does not have.
Missing == <<"<missing>">>

\* The assets of the platform, as GET /assets lists them: asset 2 carries an
\* excluded tag.
AssetDB ==
    << [id |-> <<"1", "0", "1">>, display_id |-> <<"1">>, name |-> <<"P", "C", "-", "0", "1">>, asset_tag |-> Tag(1)],
       [id |-> <<"1", "0", "2">>, display_id |-> <<"2">>, name |-> <<"S", "R", "V", "-", "0", "2">>, asset_tag |-> Tag(96)],
       [id |-> <<"1", "0", "3">>, display_id |-> <<"3">>, name |-> <<"N", "B", "\n", "0", "3", " ">>,
        asset_tag |-> Tag(3)] >>

\* The subsequences of s of at most n elements.
RECURSIVE SubLists(_, _)
SubLists(s, n) ==
    IF Len(s) = 0 \/ n = 0 THEN {<<>>}
    ELSE SubLists(Tail(s), n) \cup {<<s[1]>> \o t : t \in SubLists(Tail(s), n - 1)}

AssetLists == SubLists(AssetDB, MaxAssets)

\* The end_date of a contract: absent, one day overdue, the last day of the
\* window, the day after it.
EndDates == { None, <<"2", "0", "2", "5", "-", "0", "1", "-", "1", "4">>, <<"2", "0", "2", "6", "-", "0", "1", "-", "1", "5">>, <<"2", "0", "2", "6", "-", "0", "1", "-", "1", "6">> }

ContractNames == << <<"S", "L", "A", " ", "D", "e", "l", "l">>, <<"A", "c", "m", "e", "\n", "C", "o", "r", "p", " ">>,
                    <<"S", "u", "p", "o", "r", "t", "e", " ", "H", "P">>, <<"G", "a", "r", "a", "n", "t", "i", "a">> >>

\* Contract i of the platform with end date e; only contract 1 names a vendor.
Contract(i, e) ==
    [id |-> Digits(10 + i), name |-> ContractNames[((i - 1) % 4) + 1],
     vendor_name |-> IF i = 1 THEN <<"D", "e", "l", "l">> ELSE Missing, end_date |-> e]

RECURSIVE ContractLists(_)
ContractLists(n) ==
    IF n = 0 THEN {<<>>}
    ELSE LET shorter == ContractLists(n - 1)
         IN shorter \cup { Append(l, Contract(n, e)) :
                             l \in {t \in shorter : Len(t) = n - 1}, e \in EndDates }

\* The associated-assets lists a contract may have.
AssocLists == { <<>>,
                << [id |-> <<"1", "0", "1">>], [id |-> <<"1", "0", "2">>] >>,
                << [id |-> <<"1", "0", "2">>], [id |-> <<"1", "0", "3">>] >> }

\* The type_fields an asset detail may carry: none; a serial and a warranty
\* ending today, with a time part; a date of 8 characters; a value that is no
\* date under an ignored entry.
TypeFieldOptions ==
    { <<>>,
      << << <<"S", "e", "r", "i", "a", "l", "_", "N", "u", "m", "b", "e", "r">>, <<"A", "B", "C", "1", "2", "3">> >>,
         << <<"W", "a", "r", "r", "a", "n", "t", "y", "_", "E", "x", "p", "i", "r", "y", "_", "D", "a", "t", "e">>, <<"2", "0", "2", "5", "-", "0", "1", "-", "1", "5", "T", "0", "0", ":", "0", "0", ":", "0", "0", "Z">> >> >>,
      << << <<"W", "a", "r", "r", "a", "n", "t", "y", "_", "E", "x", "p", "i", "r", "y", "_", "D", "a", "t", "e">>, <<"2", "0", "2", "5", "-", "1", "-", "5">> >> >>,
      << << <<"I", "M", "E", "I">>, <<"N", "/", "A">> >>, << <<"V", "a", "l", "i", "d", "a", "d", "e">>, <<"3", "1", "/", "1", "2", "/", "2", "0", "2", "5">> >> >> }

\* The ways GET /assets/{display_id} fails (line 92 else, line 93).
DetailFailures == {"status", "exception"}

\* A lookup that, failing, still answers a stub carrying the asset's id.
get_asset_details_Stub(asset, outcome, tf) ==
    [id |-> asset.id, name |-> None, asset_tag |-> None,
     type_fields |-> IF outcome = "ok" THEN tf ELSE <<>>]

\* lines 89-93: the asset's detail record, or {} when the lookup fails
get_asset_details(asset, outcome, tf) ==
    IF outcome = "ok"
    THEN [id |-> asset.id, name |-> asset.name, asset_tag |-> asset.asset_tag,
          type_fields |-> tf]
    ELSE EmptyRecord

\* An exclusion test that looks at the display id instead of the tag.
IsExcluded_ByDisplayId(asset) == asset.display_id \in EXCLUDED_ASSETS

\* line 230
IsExcluded(asset) == asset.asset_tag \in EXCLUDED_ASSETS

\* A window test that leaves the last day out.
InWindow_Strict(dt, now) == dt # NoDate /\ DayOf(dt) < now + DAYS_WARN

\* lines 212, 240: dt and dt <= warning_limit, where warning_limit is
\* today + timedelta(days=DAYS_WARN) (line 199)
InWindow(dt, now) == dt # NoDate /\ DayOf(dt) <= now + DAYS_WARN

\* A map update that keeps the first contract registered for an asset.
MapPut_FirstWins(m, k, v) ==
    [x \in DOMAIN m \cup {k} |-> IF x \in DOMAIN m THEN m[x] ELSE v]

\* line 224: asset_contract_map[k] = v
MapPut(m, k, v) == [x \in DOMAIN m \cup {k} |-> IF x = k THEN v ELSE m[x]]

\* lines 223-224
RECURSIVE Register(_, _, _)
Register(m, assoc, v) ==
    IF Len(assoc) = 0 THEN m
    ELSE Register(MapPut(m, assoc[1].id, v), Tail(assoc), v)

\* line 234: asset_contract_map.get(k, {})
MapGet(m, k) == IF k \in DOMAIN m THEN m[k] ELSE [name |-> None, end |-> None]

\* A resolution that prefers the contract's end date to the asset's own.
CheckDate_ContractFirst(expiry, c_info) ==
    IF c_info.end # None THEN c_info.end ELSE expiry

\* line 236: check_date = expiry if expiry else c_info.get("end")
CheckDate(expiry, c_info) ==
    IF expiry # None /\ expiry # <<>> THEN expiry ELSE c_info.end

\* line 227
Capped(l) == IF MAX_ASSETS = 0 \/ Len(l) <= MAX_ASSETS THEN l
             ELSE SubSeq(l, 1, MAX_ASSETS)

\* lines 197-205: the two lists are fetched
MainFetch ==
    /\ pc = "idle"
    /\ assets_raw' \in AssetLists
    /\ contracts_raw' \in ContractLists(MaxContracts)
    /\ contract_alerts' = <<>>
    /\ asset_contract_map' = <<>>
    /\ ci' = 1
    /\ pc' = "contracts"
    /\ UNCHANGED <<today, ai, asset_alerts, detail_calls, assoc_log, last_det,
                   MAKE_URL, payload, sent>>
    /\ UNCHANGED <<fetchVars, fieldVars>>

\* lines 207-224: one turn of the contract loop
ContractStep ==
    /\ pc = "contracts"
    /\ ci <= Len(contracts_raw)
    /\ LET c      == contracts_raw[ci]
           end_dt == parse_date(c.end_date)
       IN /\ contract_alerts' =
                IF InWindow(end_dt, today)
                THEN Append(contract_alerts,
                            [contract_name  |-> c.name,
                             contract_id    |-> c.id,
                             vendor         |-> IF c.vendor_name = Missing
                                                THEN <<"N", "/", "A">> ELSE c.vendor_name,
                             end_date       |-> strftime(end_dt),
                             days_remaining |-> DayOf(end_dt) - today])
                ELSE contract_alerts
          /\ \E assoc \in AssocLists :
               /\ assoc_log' = Append(assoc_log, assoc)
               /\ asset_contract_map' =
                    Register(asset_contract_map, assoc,
                             [name |-> c.name, end |-> c.end_date])
    /\ ci' = ci + 1
    /\ UNCHANGED <<pc, today, assets_raw, contracts_raw, ai, asset_alerts,
                   detail_calls, last_det, MAKE_URL, payload, sent>>
    /\ UNCHANGED <<fetchVars, fieldVars>>

\* lines 226-227: the contract loop is over
StartAssets ==
    /\ pc = "contracts"
    /\ ci > Len(contracts_raw)
    /\ asset_alerts' = <<>>
    /\ assets_raw' = Capped(assets_raw)
    /\ ai' = 1
    /\ pc' = "assets"
    /\ UNCHANGED <<today, contracts_raw, ci, contract_alerts, asset_contract_map,
                   detail_calls, assoc_log, last_det, MAKE_URL, payload, sent>>
    /\ UNCHANGED <<fetchVars, fieldVars>>

\* lines 229-230: an excluded asset is passed over
AssetExcluded ==
    /\ pc = "assets"
    /\ ai <= Len(assets_raw)
    /\ IsExcluded(assets_raw[ai])
    /\ last_det' = [kind |-> "excluded", asset |-> assets_raw[ai],
                    det |-> EmptyRecord]
    /\ ai' = ai + 1
    /\ UNCHANGED <<pc, today, assets_raw, contracts_raw, ci, contract_alerts,
                   asset_contract_map, asset_alerts, detail_calls, assoc_log,
                   MAKE_URL, payload, sent>>
    /\ UNCHANGED <<fetchVars, fieldVars>>

\* lines 232-250 with the detail det
Analyse(det) ==
    LET fields  == extract_fields_smart(det.type_fields)
        serial  == fields[1]
        expiry  == fields[2]
        c_info  == MapGet(asset_contract_map, det.id)
        dt      == parse_date(CheckDate(expiry, c_info))
    IN IF InWindow(dt, today)
       THEN Append(asset_alerts,
                   [Asset      |-> det.name,
                    Tag        |-> det.asset_tag,
                    Serial     |-> serial,
                    Contrato   |-> c_info.name,
                    Vencimento |-> strftime(dt),
                    Dias       |-> DayOf(dt) - today])
       ELSE asset_alerts

\* lines 229-250: the detail lookup fails
AssetDetailFails ==
    /\ pc = "assets"
    /\ ai <= Len(assets_raw)
    /\ ~IsExcluded(assets_raw[ai])
    /\ \E outcome \in DetailFailures :
         LET det == get_asset_details(assets_raw[ai], outcome, <<>>)
         IN /\ last_det' = [kind |-> "failed", asset |-> assets_raw[ai], det |-> det]
            /\ asset_alerts' = Analyse(det)
    /\ detail_calls' = Append(detail_calls, assets_raw[ai].display_id)
    /\ ai' = ai + 1
    /\ UNCHANGED <<pc, today, assets_raw, contracts_raw, ci, contract_alerts,
                   asset_contract_map, assoc_log, MAKE_URL, payload, sent>>
    /\ UNCHANGED <<fetchVars, fieldVars>>

\* lines 229-250: the detail lookup answers the asset with its type_fields
AssetAnalysed ==
    /\ pc = "assets"
    /\ ai <= Len(assets_raw)
    /\ ~IsExcluded(assets_raw[ai])
    /\ \E tf \in TypeFieldOptions :
         LET det == get_asset_details(assets_raw[ai], "ok", tf)
         IN /\ last_det' = [kind |-> "ok", asset |-> assets_raw[ai], det |-> det]
            /\ asset_alerts' = Analyse(det)
    /\ detail_calls' = Append(detail_calls, assets_raw[ai].display_id)
    /\ ai' = ai + 1
    /\ UNCHANGED <<pc, today, assets_raw, contracts_raw, ci, contract_alerts,
                   asset_contract_map, assoc_log, MAKE_URL, payload, sent>>
    /\ UNCHANGED <<fetchVars, fieldVars>>

\* lines 252-253 and 133-190: there are alerts, send_to_make is called
MainSend ==
    /\ pc = "assets"
    /\ ai > Len(assets_raw)
    /\ asset_alerts # <<>> \/ contract_alerts # <<>>
    /\ IF ~MAKE_URL
       THEN /\ sent' = "false"
            /\ UNCHANGED payload
       ELSE /\ payload' = BuildPayload(asset_alerts, contract_alerts)
            /\ sent' \in {"true", "false"}
    /\ pc' = "done"
    /\ UNCHANGED <<today, assets_raw, contracts_raw, ci, ai, contract_alerts,
                   asset_contract_map, asset_alerts, detail_calls, assoc_log,
                   last_det, MAKE_URL>>
    /\ UNCHANGED <<fetchVars, fieldVars>>

\* lines 254-255: nothing to report
MainNoAlerts ==
    /\ pc = "assets"
    /\ ai > Len(assets_raw)
    /\ asset_alerts = <<>> /\ contract_alerts = <<>>
    /\ pc' = "done"
    /\ UNCHANGED <<today, assets_raw, contracts_raw, ci, ai, contract_alerts,
                   asset_contract_map, asset_alerts, detail_calls, assoc_log,
                   last_det, MAKE_URL, payload, sent>>
    /\ UNCHANGED <<fetchVars, fieldVars>>

\* line 198: the run starts on 2025-01-15
MainInit ==
    /\ pc = "idle"
    /\ today = Ordinal(2025, 1, 15)
    /\ assets_raw = <<>>
    /\ contracts_raw = <<>>
    /\ ci = 0
    /\ ai = 0
    /\ contract_alerts = <<>>
    /\ asset_contract_map = <<>>
    /\ asset_alerts = <<>>
    /\ detail_calls = <<>>
    /\ assoc_log = <<>>
    /\ last_det = [kind |-> "none", asset |-> None, det |-> EmptyRecord]
    /\ MAKE_URL = TRUE
    /\ payload = NoPayload
    /\ sent = "none"

Init == FetchIdle /\ FieldIdle /\ MainInit

Next ==
    \/ MainFetch
    \/ ContractStep
    \/ StartAssets
    \/ AssetExcluded
    \/ AssetDetailFails
    \/ AssetAnalysed
    \/ MainSend
    \/ MainNoAlerts

Spec == Init /\ [][Next]_vars

\* ----------------------------------------------------------------------
\* send_to_make on its own: alerts of every day count
\* ----------------------------------------------------------------------

MaxDays == 125   \* the largest days_remaining of an alert handed to send_to_make
MinDays == 5     \* the most overdue alert is MinDays days late

\* An asset alert and a contract alert as main builds them, d days from now.
AssetAlertOf(now, d) ==
    [Asset |-> <<"P", "C", "-", "0", "1">>, Tag |-> Tag(1), Serial |-> <<"A", "B", "C", "1", "2", "3">>, Contrato |-> None,
     Vencimento |-> strftime(DateOf(now + d)), Dias |-> d]

ContractAlertOf(now, d) ==
    [contract_name |-> <<"S", "L", "A", " ", "D", "e", "l", "l">>, contract_id |-> <<"1", "1">>, vendor |-> <<"D", "e", "l", "l">>,
     end_date |-> strftime(DateOf(now + d)), days_remaining |-> d]

MakeInit ==
    /\ pc = "assets"
    /\ today = Ordinal(2025, 1, 15)
    /\ assets_raw = <<>>
    /\ contracts_raw = <<>>
    /\ ci = 1
    /\ ai = 1
    /\ contract_alerts \in
         {<<>>} \cup {<<ContractAlertOf(Ordinal(2025, 1, 15), d)>> : d \in (-MinDays)..MaxDays}
    /\ asset_contract_map = <<>>
    /\ asset_alerts \in
         {<<>>} \cup {<<AssetAlertOf(Ordinal(2025, 1, 15), d)>> : d \in (-MinDays)..MaxDays}
    /\ detail_calls = <<>>
    /\ assoc_log = <<>>
    /\ last_det = [kind |-> "none", asset |-> None, det |-> EmptyRecord]
    /\ MAKE_URL \in BOOLEAN
    /\ payload = NoPayload
    /\ sent = "none"

InitMake == FetchIdle /\ FieldIdle /\ MakeInit

MakeNext ==
    \/ MainSend
    \/ MainNoAlerts

SpecMake == InitMake /\ [][MakeNext]_vars

\* ------------------------------------------- claims on get_style, send_to_make

\* The severity bands; the level the code names "vencido" is the overdue band.
Band(d) ==
    CASE d < 0               -> "vencido"
      [] d >= 0 /\ d <= 90   -> "critical"
      [] d >= 91 /\ d <= 120 -> "warning"
      [] d > 120             -> "info"

\* C6: get_style puts every day count in the band d < 0 overdue, 0..90
\* critical, 91..120 warning, over 120 info, and in the payload send_to_make
\* builds every asset alert and every contract alert carries the band of its
\* own days_remaining.
C6_SeverityBands ==
    /\ \A i \in 1..Len(asset_alerts) :
         get_style(asset_alerts[i].Dias).level = Band(asset_alerts[i].Dias)
    /\ \A i \in 1..Len(contract_alerts) :
         get_style(contract_alerts[i].days_remaining).level
           = Band(contract_alerts[i].days_remaining)
    /\ (pc = "done" /\ MAKE_URL /\ sent # "none") =>
         /\ Len(payload.asset_alerts) = Len(asset_alerts)
         /\ Len(payload.contract_alerts) = Len(contract_alerts)
         /\ \A i \in 1..Len(asset_alerts) :
              /\ payload.asset_alerts[i].days_remaining = asset_alerts[i].Dias
              /\ payload.asset_alerts[i].alert_level = Band(asset_alerts[i].Dias)
         /\ \A i \in 1..Len(contract_alerts) :
              /\ payload.contract_alerts[i].days_remaining
                   = contract_alerts[i].days_remaining
              /\ payload.contract_alerts[i].alert_level
                   = Band(contract_alerts[i].days_remaining)

\* A payload with an asset alert on the last critical day and a contract
\* alert on the first warning day.
C6_Witness ==
    /\ pc = "done"
    /\ sent = "true"
    /\ Len(payload.asset_alerts) = 1
    /\ payload.asset_alerts[1].days_remaining = 90
    /\ payload.asset_alerts[1].alert_level = "critical"
    /\ Len(payload.contract_alerts) = 1
    /\ payload.contract_alerts[1].days_remaining = 91
    /\ payload.contract_alerts[1].alert_level = "warning"
    /\ payload.summary.total_count = 2

\* ------------------------------------------------------------ claims on main

AssetStepped == pc = "assets" /\ ai' = ai + 1

\* C4: an asset whose tag is in the exclusion set is never looked up and no
\* alert carries it, whatever its fields or its contract.
C4_ExcludedNeverExpanded ==
    /\ \A i \in 1..Len(assets_raw) :
         assets_raw[i].asset_tag \in EXCLUDED_ASSETS =>
           /\ \A j \in 1..Len(detail_calls) :
                detail_calls[j] # assets_raw[i].display_id
           /\ \A j \in 1..Len(asset_alerts) :
                asset_alerts[j].Asset # assets_raw[i].name
    /\ \A j \in 1..Len(asset_alerts) : asset_alerts[j].Tag \notin EXCLUDED_ASSETS
    /\ \A j \in 1..Len(payload.asset_alerts) :
         payload.asset_alerts[j].asset_tag \notin EXCLUDED_ASSETS

\* The run is over; it passed over an excluded asset whose contract ends
\* within the window, and reported another asset.
C4_Witness ==
    /\ pc = "done"
    /\ asset_alerts # <<>>
    /\ \E i \in 1..Len(assets_raw) :
         /\ assets_raw[i].asset_tag \in EXCLUDED_ASSETS
         /\ assets_raw[i].id \in DOMAIN asset_contract_map
         /\ asset_contract_map[assets_raw[i].id].end = <<"2", "0", "2", "6", "-", "0", "1", "-", "1", "5">>

\* C5 as stated: every alert has days_remaining within [0, lookahead_days].
C5_WindowHasLowerBound ==
    /\ \A i \in 1..Len(contract_alerts) :
         contract_alerts[i].days_remaining >= 0
           /\ contract_alerts[i].days_remaining <= 365
    /\ \A i \in 1..Len(asset_alerts) :
         asset_alerts[i].Dias >= 0 /\ asset_alerts[i].Dias <= 365

\* C5, amended: a contract or an asset yields an alert exactly when its
\* resolved expiration date parses and its days_remaining is at most
\* lookahead_days (365); there is no lower bound, an overdue item is reported.
C5_WindowHasNoLowerBound ==
    [][ /\ (pc = "contracts" /\ ci' = ci + 1) =>
             \A dt \in {parse_date(contracts_raw[ci].end_date)} :
               IF dt # NoDate /\ DayOf(dt) - today <= 365
               THEN /\ Len(contract_alerts') = Len(contract_alerts) + 1
                    /\ Last(contract_alerts').days_remaining = DayOf(dt) - today
                    /\ Last(contract_alerts').contract_id = contracts_raw[ci].id
               ELSE contract_alerts' = contract_alerts
        /\ (AssetStepped /\ last_det'.kind # "excluded") =>
             \A det \in {last_det'.det} :
             \A dt \in {parse_date(
                          CheckDate(extract_fields_smart(det.type_fields)[2],
                                    MapGet(asset_contract_map, det.id)))} :
               IF dt # NoDate /\ DayOf(dt) - today <= 365
               THEN /\ Len(asset_alerts') = Len(asset_alerts) + 1
                    /\ Last(asset_alerts').Dias = DayOf(dt) - today
               ELSE asset_alerts' = asset_alerts ]_vars

\* A contract one day overdue is reported and one ending the day after the
\* window is not.
C5_Witness ==
    /\ pc = "assets"
    /\ Len(contracts_raw) = 2
    /\ contracts_raw[1].end_date = <<"2", "0", "2", "6", "-", "0", "1", "-", "1", "6">>
    /\ contracts_raw[2].end_date = <<"2", "0", "2", "5", "-", "0", "1", "-", "1", "4">>
    /\ Len(contract_alerts) = 1
    /\ contract_alerts[1].days_remaining = -1
    /\ contract_alerts[1].contract_id = contracts_raw[2].id

\* C8: for every asset looked up, the date parsed and tested is the expiry
\* of its custom fields when there is one and otherwise the end date of the
\* contract mapped to its id; with neither, or when that date does not
\* parse, there is no alert; the alert's contract name is the mapped
\* contract's name whichever date was used.
C8_DateSourcePriority ==
    [][ (AssetStepped /\ last_det'.kind # "excluded") =>
          \A det \in {last_det'.det} :
          \A kf \in {KeptFields(det.type_fields)} :
          \A expiry \in {ExpiryByRule(kf)} :
          \A info \in {IF det.id \in DOMAIN asset_contract_map
                       THEN asset_contract_map[det.id]
                       ELSE [name |-> None, end |-> None]} :
          \A dt \in {parse_date(IF expiry # None THEN expiry ELSE info.end)} :
             /\ last_det'.kind = "ok" => det.id = assets_raw[ai].id
             /\ IF dt # NoDate /\ DayOf(dt) <= today + 365
                THEN asset_alerts' =
                       Append(asset_alerts,
                              [Asset      |-> det.name,
                               Tag        |-> det.asset_tag,
                               Serial     |-> SerialByRule(kf),
                               Contrato   |-> info.name,
                               Vencimento |-> strftime(dt),
                               Dias       |-> DayOf(dt) - today])
                ELSE asset_alerts' = asset_alerts ]_vars

\* The asset has its own expiry and a contract with another end date: the
\* alert carries the asset's date and the contract's name.
C8_Witness ==
    /\ last_det.kind = "ok"
    /\ last_det.det.type_fields =
         << << <<"S", "e", "r", "i", "a", "l", "_", "N", "u", "m", "b", "e", "r">>, <<"A", "B", "C", "1", "2", "3">> >>,
            << <<"W", "a", "r", "r", "a", "n", "t", "y", "_", "E", "x", "p", "i", "r", "y", "_", "D", "a", "t", "e">>, <<"2", "0", "2", "5", "-", "0", "1", "-", "1", "5", "T", "0", "0", ":", "0", "0", ":", "0", "0", "Z">> >> >>
    /\ last_det.det.id \in DOMAIN asset_contract_map
    /\ asset_contract_map[last_det.det.id].end = <<"2", "0", "2", "5", "-", "0", "1", "-", "1", "4">>
    /\ asset_alerts # <<>>
    /\ Last(asset_alerts).Vencimento = <<"1", "5", "/", "0", "1", "/", "2", "0", "2", "5">>
    /\ Last(asset_alerts).Dias = 0
    /\ Last(asset_alerts).Contrato = asset_contract_map[last_det.det.id].name

\* The last contract, in fetch order, whose associated assets hold id.
LastContractWith(id) ==
    LET is == {i \in 1..Len(assoc_log) :
                 \E j \in 1..Len(assoc_log[i]) : assoc_log[i][j].id = id}
    IN CHOOSE i \in is : \A g \in is : g <= i

MapIsLastWins ==
    LET ids == UNION {{assoc_log[i][j].id : j \in 1..Len(assoc_log[i])} :
                        i \in 1..Len(assoc_log)}
    IN /\ DOMAIN asset_contract_map = ids
       /\ \A id \in ids :
            asset_contract_map[id] =
              [name |-> contracts_raw[LastContractWith(id)].name,
               end  |-> contracts_raw[LastContractWith(id)].end_date]

\* C9: the map is complete before the first asset is analysed and is not
\* written during the asset loop; it holds, for every asset id associated to
\* a contract, the name and end date of the last such contract in fetch order.
C9_MapLastWriteWins ==
    /\ [](MapIsLastWins)
    /\ []((ai > 1 \/ detail_calls # <<>>) =>
            (ci > Len(contracts_raw) /\ Len(assoc_log) = Len(contracts_raw)))
    /\ [][ (pc = "assets" \/ pc = "done") =>
             asset_contract_map' = asset_contract_map ]_vars

\* Asset 102 is associated to both contracts, and the second, which ends
\* outside the window, is the one the map holds when the asset loop runs.
C9_Witness ==
    /\ pc = "assets"
    /\ ai > 1
    /\ Len(contracts_raw) = 2
    /\ assoc_log = << << [id |-> <<"1", "0", "1">>], [id |-> <<"1", "0", "2">>] >>,
                      << [id |-> <<"1", "0", "2">>], [id |-> <<"1", "0", "3">>] >> >>
    /\ contracts_raw[1].end_date = <<"2", "0", "2", "5", "-", "0", "1", "-", "1", "4">>
    /\ contracts_raw[2].end_date = <<"2", "0", "2", "6", "-", "0", "1", "-", "1", "6">>
    /\ asset_contract_map[ <<"1", "0", "2">> ] =
         [name |-> contracts_raw[2].name, end |-> <<"2", "0", "2", "6", "-", "0", "1", "-", "1", "6">>]
    /\ asset_contract_map[ <<"1", "0", "1">> ] =
         [name |-> contracts_raw[1].name, end |-> <<"2", "0", "2", "5", "-", "0", "1", "-", "1", "4">>]

\* C10: a failed detail lookup yields the empty record, adds no alert, and the
\* loop goes on to the next asset.
C10_FailedLookupSkipsAsset ==
    [][ (AssetStepped /\ last_det'.kind = "failed") =>
          /\ last_det'.det = EmptyRecord
          /\ detail_calls' = Append(detail_calls, assets_raw[ai].display_id)
          /\ asset_alerts' = asset_alerts
          /\ pc' = "assets" ]_vars

\* The lookup failed for an asset whose contract ends within the window; no
\* alert was added and another asset is still to come.
C10_Witness ==
    /\ pc = "assets"
    /\ last_det.kind = "failed"
    /\ last_det.asset.id \in DOMAIN asset_contract_map
    /\ asset_contract_map[last_det.asset.id].end = <<"2", "0", "2", "6", "-", "0", "1", "-", "1", "5">>
    /\ asset_alerts = <<>>
    /\ ai <= Len(assets_raw)

====
